---- MODULE Spec2Model ----
(***************************************************************************)
(* The generic rotation contract of cgmath (src/src/cgmath/rotation.rs):   *)
(* trait Rotation with its provided methods, and its three implementors    *)
(* Basis2, Basis3 and Quat.                                                *)
(*                                                                         *)
(* Scalars.  The code is generic over S: Float.  Here a scalar is an exact *)
(* rational <<n, d>> in lowest terms with d > 0, so "within tolerance" is  *)
(* plain equality.  Inputs are drawn so that every square root taken and   *)
(* every sine and cosine used is rational.                                 *)
(*                                                                         *)
(* Layout.  As in cgmath a matrix is the tuple of its COLUMNS and a        *)
(* quaternion is a scalar part s and a vector part v.                      *)
(*                                                                         *)
(* Failure.  fail! and unwrap() of None end the call without a value; a    *)
(* call's outcome is Ok(value) or Fail.                                    *)
(*                                                                         *)
(* A behaviour is the life of one rotation value: it is constructed (Init, *)
(* by identity() or a builder, with any argument the builder accepts),     *)
(* then queried through &self and changed in place through &mut self.      *)
(***************************************************************************)
EXTENDS Integers, Sequences, FiniteSets, TLC

VARIABLES rot, last, steps

vars == <<rot, last, steps>>

(* Most concat_self / invert_self calls applied to one constructed value.  *)
MaxSteps == 2

-----------------------------------------------------------------------------
(* S: Float, as exact rationals                                            *)

Abs(n) == IF n < 0 THEN -n ELSE n

RECURSIVE GCD(_, _)
GCD(a, b) == IF b = 0 THEN a ELSE GCD(b, a % b)

Rat(n, d) ==
    LET g == GCD(Abs(n), Abs(d))
        sg == IF d < 0 THEN -1 ELSE 1
    IN  <<sg * (n \div g), sg * (d \div g)>>

Int2S(n) == <<n, 1>>
zero == Int2S(0)
one  == Int2S(1)
two  == Int2S(2)
half == Rat(1, 2)

(* over the least common denominator, to keep the integers small *)
add(a, b) ==
    LET g == GCD(a[2], b[2])
    IN  Rat(a[1] * (b[2] \div g) + b[1] * (a[2] \div g), a[2] * (b[2] \div g))
neg(a)    == <<-a[1], a[2]>>
sub(a, b) == add(a, neg(b))
mul(a, b) ==
    LET g1 == GCD(Abs(a[1]), b[2])
        g2 == GCD(Abs(b[1]), a[2])
    IN  Rat((a[1] \div g1) * (b[1] \div g2), (a[2] \div g2) * (b[2] \div g1))
(* b # zero wherever the model divides *)
div(a, b) == mul(a, Rat(b[2], b[1]))
lt(a, b)  == a[1] * b[2] < b[1] * a[2]
le(a, b)  == a[1] * b[2] <= b[1] * a[2]
absS(a)   == <<Abs(a[1]), a[2]>>

(* the integer square root of n >= 0, by bisection on lo <= root < hi *)
RECURSIVE Bisect(_, _, _)
Bisect(n, lo, hi) ==
    IF hi - lo <= 1 THEN lo
    ELSE LET mid == (lo + hi) \div 2
         IN  IF mid <= n \div mid THEN Bisect(n, mid, hi) ELSE Bisect(n, lo, mid)

SqrtInt(n)     == IF n < 2 THEN n ELSE Bisect(n, 1, n)
IsSquareInt(n) == n >= 0 /\ SqrtInt(n) * SqrtInt(n) = n
(* whether sqrt(a) is a rational, and that rational *)
HasSqrt(a) == IsSquareInt(a[1]) /\ IsSquareInt(a[2])
sqrt(a)    == <<SqrtInt(a[1]), SqrtInt(a[2])>>

-----------------------------------------------------------------------------
(* Vec2 / Vec3 / Point2 / Point3: tuples of scalars                        *)

V2(x, y)    == <<Int2S(x), Int2S(y)>>
V3(x, y, z) == <<Int2S(x), Int2S(y), Int2S(z)>>

Vec_add(a, b) ==
    IF Len(a) = 2 THEN <<add(a[1], b[1]), add(a[2], b[2])>>
    ELSE <<add(a[1], b[1]), add(a[2], b[2]), add(a[3], b[3])>>

Vec_mul_s(a, s) ==
    IF Len(a) = 2 THEN <<mul(a[1], s), mul(a[2], s)>>
    ELSE <<mul(a[1], s), mul(a[2], s), mul(a[3], s)>>

Vec_div_s(a, s) ==
    IF Len(a) = 2 THEN <<div(a[1], s), div(a[2], s)>>
    ELSE <<div(a[1], s), div(a[2], s), div(a[3], s)>>

Vec_neg(a) ==
    IF Len(a) = 2 THEN <<neg(a[1]), neg(a[2])>>
    ELSE <<neg(a[1]), neg(a[2]), neg(a[3])>>

(* Array::build(|i| a.i(i).clone()): a new array of the components of a *)
Array_build_clone(a) ==
    IF Len(a) = 2 THEN <<a[1], a[2]>> ELSE <<a[1], a[2], a[3]>>

Vec3_dot(a, b) == add(add(mul(a[1], b[1]), mul(a[2], b[2])), mul(a[3], b[3]))

Vec3_cross(a, b) ==
    << sub(mul(a[2], b[3]), mul(a[3], b[2])),
       sub(mul(a[3], b[1]), mul(a[1], b[3])),
       sub(mul(a[1], b[2]), mul(a[2], b[1])) >>

Vec3_length2(a)  == Vec3_dot(a, a)
Vec3_normalize(a) == Vec_div_s(a, sqrt(Vec3_length2(a)))

(* Point::to_vec and Point::from_vec: a point and the vector from the      *)
(* origin to it have the same components                                   *)
Point_to_vec(p)   == Array_build_clone(p)
Point_from_vec(v) == Array_build_clone(v)

(* Ray::new *)
Ray_new(origin, direction) == [origin |-> origin, direction |-> direction]

-----------------------------------------------------------------------------
(* Option<T> and the outcome of a call                                     *)

Some(x) == [some |-> TRUE, val |-> x]
None    == [some |-> FALSE, val |-> <<>>]

(* a call returns a value, or ends without one (fail!, unwrap of None)     *)
Ok(x)  == [failed |-> FALSE, val |-> x]
Fail   == [failed |-> TRUE, val |-> <<>>]

(* Option::unwrap *)
unwrap(o) == IF o.some THEN Ok(o.val) ELSE Fail

-----------------------------------------------------------------------------
(* matrix::Mat2                                                            *)

Mat2_identity == << <<one, zero>>, <<zero, one>> >>

Mat2_mul_v(m, v) == Vec_add(Vec_mul_s(m[1], v[1]), Vec_mul_s(m[2], v[2]))

Mat2_mul_m(a, b) == << Mat2_mul_v(a, b[1]), Mat2_mul_v(a, b[2]) >>

Mat2_transpose(m) == << <<m[1][1], m[2][1]>>, <<m[1][2], m[2][2]>> >>

Mat2_determinant(m) == sub(mul(m[1][1], m[2][2]), mul(m[2][1], m[1][2]))

Mat2_invert(m) ==
    LET det == Mat2_determinant(m)
    IN  IF det = zero THEN None
        ELSE Some(<< <<div(m[2][2], det), div(neg(m[1][2]), det)>>,
                     <<div(neg(m[2][1]), det), div(m[1][1], det)>> >>)

(* the in-place forms assign the result of the value forms to the receiver *)
Mat2_mul_self_m(m, other) == Mat2_mul_m(m, other)
Mat2_invert_self(m) == unwrap(Mat2_invert(m))

Mat2_approx_eq_eps(a, b, eps) ==
    \A c \in 1..2 : \A r \in 1..2 : lt(absS(sub(a[c][r], b[c][r])), eps)

-----------------------------------------------------------------------------
(* matrix::Mat3                                                            *)

Mat3_identity == << <<one, zero, zero>>, <<zero, one, zero>>, <<zero, zero, one>> >>

Mat3_mul_v(m, v) ==
    Vec_add(Vec_add(Vec_mul_s(m[1], v[1]), Vec_mul_s(m[2], v[2])),
            Vec_mul_s(m[3], v[3]))

Mat3_mul_m(a, b) ==
    << Mat3_mul_v(a, b[1]), Mat3_mul_v(a, b[2]), Mat3_mul_v(a, b[3]) >>

Mat3_transpose(m) ==
    << <<m[1][1], m[2][1], m[3][1]>>,
       <<m[1][2], m[2][2], m[3][2]>>,
       <<m[1][3], m[2][3], m[3][3]>> >>

Mat3_determinant(m) == Vec3_dot(m[1], Vec3_cross(m[2], m[3]))

Mat3_trace(m) == add(add(m[1][1], m[2][2]), m[3][3])

Mat3_invert(m) ==
    LET det == Mat3_determinant(m)
    IN  IF det = zero THEN None
        ELSE Some(Mat3_transpose(
                 << Vec_div_s(Vec3_cross(m[2], m[3]), det),
                    Vec_div_s(Vec3_cross(m[3], m[1]), det),
                    Vec_div_s(Vec3_cross(m[1], m[2]), det) >>))

Mat3_mul_self_m(m, other) == Mat3_mul_m(m, other)
Mat3_invert_self(m) == unwrap(Mat3_invert(m))

Mat3_approx_eq_eps(a, b, eps) ==
    \A c \in 1..3 : \A r \in 1..3 : lt(absS(sub(a[c][r], b[c][r])), eps)

-----------------------------------------------------------------------------
(* angle::Rad: an angle is given by its sine and cosine, which is all      *)
(* the builders read of it (sin_cos)                                       *)

Rad(sn, cs) == [sin |-> sn, cos |-> cs]
sin_cos(theta) == <<theta.sin, theta.cos>>

Deg0   == Rad(zero, one)
Deg90  == Rad(one, zero)
Deg180 == Rad(zero, neg(one))
(* atan(4/3), about 53.13 degrees *)
DegPyth == Rad(Rat(4, 5), Rat(3, 5))
(* 2 * atan(3/4), about 73.74 degrees: its half angle has sine 3/5 and     *)
(* cosine 4/5, so the quaternion of this rotation is rational              *)
DegHalf == Rad(Rat(24, 25), Rat(7, 25))

-----------------------------------------------------------------------------
(* matrix::Mat3 builders                                                   *)

Mat3_from_angle_x(theta) ==
    LET s == sin_cos(theta)[1]
        c == sin_cos(theta)[2]
    IN  << <<one, zero, zero>>, <<zero, c, s>>, <<zero, neg(s), c>> >>

Mat3_from_angle_y(theta) ==
    LET s == sin_cos(theta)[1]
        c == sin_cos(theta)[2]
    IN  << <<c, zero, neg(s)>>, <<zero, one, zero>>, <<s, zero, c>> >>

Mat3_from_angle_z(theta) ==
    LET s == sin_cos(theta)[1]
        c == sin_cos(theta)[2]
    IN  << <<c, s, zero>>, <<neg(s), c, zero>>, <<zero, zero, one>> >>

(* the three principal-axis rotations composed in the fixed order z, y, x  *)
Mat3_from_euler(x, y, z) ==
    Mat3_mul_m(Mat3_from_angle_z(z),
               Mat3_mul_m(Mat3_from_angle_y(y), Mat3_from_angle_x(x)))

(* Rodrigues' formula; the axis is taken as given (it is meant to be      *)
(* normalized) and is not rescaled                                         *)
Mat3_from_axis_angle(axis, angle) ==
    LET s == sin_cos(angle)[1]
        c == sin_cos(angle)[2]
        k == sub(one, c)
        x == axis[1]
        y == axis[2]
        z == axis[3]
    IN  << << add(mul(k, mul(x, x)), c),
              add(mul(k, mul(x, y)), mul(s, z)),
              sub(mul(k, mul(x, z)), mul(s, y)) >>,
           << sub(mul(k, mul(x, y)), mul(s, z)),
              add(mul(k, mul(y, y)), c),
              add(mul(k, mul(y, z)), mul(s, x)) >>,
           << add(mul(k, mul(x, z)), mul(s, y)),
              sub(mul(k, mul(y, z)), mul(s, x)),
              add(mul(k, mul(z, z)), c) >> >>

(* Gram-Schmidt: the forward axis along dir, up made perpendicular to it   *)
Mat3_look_at(dir, up) ==
    LET f    == Vec3_normalize(dir)
        side == Vec3_normalize(Vec3_cross(up, f))
        u    == Vec3_cross(f, side)
    IN  <<side, u, f>>

-----------------------------------------------------------------------------
(* quaternion::Quat                                                        *)

Quat_new(w, xi, yj, zk) == [s |-> w, v |-> <<xi, yj, zk>>]

Quat_identity_q == Quat_new(one, zero, zero, zero)

(* the Hamilton product *)
Quat_mul_q(a, b) ==
    [s |-> sub(mul(a.s, b.s), Vec3_dot(a.v, b.v)),
     v |-> Vec_add(Vec_add(Vec_mul_s(b.v, a.s), Vec_mul_s(a.v, b.s)),
                   Vec3_cross(a.v, b.v))]

Quat_mul_self_q(a, b) == Quat_mul_q(a, b)

Quat_conjugate(a) == [s |-> a.s, v |-> Vec_neg(a.v)]

Quat_magnitude2(a) == add(mul(a.s, a.s), Vec3_dot(a.v, a.v))

Quat_div_s(a, d) == [s |-> div(a.s, d), v |-> Vec_div_s(a.v, d)]

Quat_neg(a) == [s |-> neg(a.s), v |-> Vec_neg(a.v)]

(* the sandwich product q (0, vec) q* *)
Quat_mul_v(a, vec) ==
    Quat_mul_q(Quat_mul_q(a, [s |-> zero, v |-> vec]), Quat_conjugate(a)).v

Quat_to_mat3(a) ==
    LET w == a.s
        x == a.v[1]
        y == a.v[2]
        z == a.v[3]
        d(p, r) == mul(two, mul(p, r))
    IN  << << sub(sub(one, d(y, y)), d(z, z)), add(d(x, y), d(w, z)), sub(d(x, z), d(w, y)) >>,
           << sub(d(x, y), d(w, z)), sub(sub(one, d(x, x)), d(z, z)), add(d(y, z), d(w, x)) >>,
           << add(d(x, z), d(w, y)), sub(d(y, z), d(w, x)), sub(sub(one, d(x, x)), d(y, y)) >> >>

(* the radicand of the trace-based extraction: the branch taken decides it *)
Mat3_to_quat_radicand(m) ==
    IF le(zero, Mat3_trace(m)) THEN add(one, Mat3_trace(m))
    ELSE IF lt(m[2][2], m[1][1]) /\ lt(m[3][3], m[1][1])
         THEN sub(sub(add(one, m[1][1]), m[2][2]), m[3][3])
    ELSE IF lt(m[3][3], m[2][2])
         THEN sub(sub(add(one, m[2][2]), m[1][1]), m[3][3])
    ELSE sub(sub(add(one, m[3][3]), m[1][1]), m[2][2])

(* trace-based extraction; m[c][r] is row r of column c *)
Mat3_to_quat(m) ==
    LET big == mul(half, sqrt(Mat3_to_quat_radicand(m)))
        k   == div(half, sqrt(Mat3_to_quat_radicand(m)))
    IN  IF le(zero, Mat3_trace(m))
        THEN Quat_new(big,
                      mul(sub(m[2][3], m[3][2]), k),
                      mul(sub(m[3][1], m[1][3]), k),
                      mul(sub(m[1][2], m[2][1]), k))
        ELSE IF lt(m[2][2], m[1][1]) /\ lt(m[3][3], m[1][1])
        THEN Quat_new(mul(sub(m[2][3], m[3][2]), k),
                      big,
                      mul(add(m[1][2], m[2][1]), k),
                      mul(add(m[3][1], m[1][3]), k))
        ELSE IF lt(m[3][3], m[2][2])
        THEN Quat_new(mul(sub(m[3][1], m[1][3]), k),
                      mul(add(m[1][2], m[2][1]), k),
                      big,
                      mul(add(m[2][3], m[3][2]), k))
        ELSE Quat_new(mul(sub(m[1][2], m[2][1]), k),
                      mul(add(m[3][1], m[1][3]), k),
                      mul(add(m[2][3], m[3][2]), k),
                      big)

(* the default tolerance of S and the component-wise comparisons *)
default_epsilon == Rat(1, 100000)

Mat2_approx_eq(a, b) == Mat2_approx_eq_eps(a, b, default_epsilon)
Mat3_approx_eq(a, b) == Mat3_approx_eq_eps(a, b, default_epsilon)

Quat_approx_eq_eps(a, b, eps) ==
    /\ lt(absS(sub(a.s, b.s)), eps)
    /\ \A i \in 1..3 : lt(absS(sub(a.v[i], b.v[i])), eps)

Quat_approx_eq(a, b) == Quat_approx_eq_eps(a, b, default_epsilon)

Quat_approx_epsilon == Ok(default_epsilon)

-----------------------------------------------------------------------------
(* struct Basis2 { priv mat: Mat2 } and impl Rotation for Basis2           *)

Basis2(m) == [mat |-> m]

Basis2_to_rot2(self) == self
Basis2_to_mat2(self) == self.mat

Basis2_identity == Basis2(Mat2_identity)

Basis2_rotate_vec(self, vec) == Mat2_mul_v(self.mat, vec)

Basis2_concat(self, other) == Basis2(Mat2_mul_m(self.mat, other.mat))

(* the receiver after the call *)
Basis2_concat_self(self, other) == Basis2(Mat2_mul_self_m(self.mat, other.mat))

Basis2_invert(self) ==
    LET r == unwrap(Mat2_invert(self.mat))
    IN  IF r.failed THEN Fail ELSE Ok(Basis2(r.val))

(* the receiver after the call, unless the call fails *)
Basis2_invert_self(self) ==
    LET r == Mat2_invert_self(self.mat)
    IN  IF r.failed THEN Fail ELSE Ok(Basis2(r.val))

Basis2_eq(self, other) == self.mat = other.mat

Basis2_approx_epsilon == Fail

Basis2_approx_eq(self, other) == Mat2_approx_eq(self.mat, other.mat)

Basis2_approx_eq_eps(self, other, approx_epsilon) ==
    Mat2_approx_eq_eps(self.mat, other.mat, approx_epsilon)

-----------------------------------------------------------------------------
(* struct Basis3 { priv mat: Mat3 }, its builders, impl Rotation for Basis3 *)

Basis3(m) == [mat |-> m]

Basis3_look_at(dir, up)           == Basis3(Mat3_look_at(dir, up))
Basis3_from_angle_x(theta)        == Basis3(Mat3_from_angle_x(theta))
Basis3_from_angle_y(theta)        == Basis3(Mat3_from_angle_y(theta))
Basis3_from_angle_z(theta)        == Basis3(Mat3_from_angle_z(theta))
Basis3_from_euler(x, y, z)        == Basis3(Mat3_from_euler(x, y, z))
Basis3_from_axis_angle(axis, angle) == Basis3(Mat3_from_axis_angle(axis, angle))

Basis3_to_rot3(self) == self
Basis3_to_mat3(self) == self.mat
Basis3_to_quat(self) == Mat3_to_quat(self.mat)

Basis3_identity == Basis3(Mat3_identity)

Basis3_rotate_vec(self, vec) == Mat3_mul_v(self.mat, vec)

Basis3_concat(self, other) == Basis3(Mat3_mul_m(self.mat, other.mat))

(* a faulty concat_self: the operands of the product exchanged *)
Basis3_concat_self_reversed(self, other) ==
    Basis3(Mat3_mul_self_m(other.mat, self.mat))

Basis3_concat_self(self, other) == Basis3(Mat3_mul_self_m(self.mat, other.mat))

(* a faulty invert: the identity handed back where there is no inverse *)
Basis3_invert_sentinel(self) ==
    LET o == Mat3_invert(self.mat)
    IN  IF o.some THEN Ok(Basis3(o.val)) ELSE Ok(Basis3_identity)

Basis3_invert(self) ==
    LET r == unwrap(Mat3_invert(self.mat))
    IN  IF r.failed THEN Fail ELSE Ok(Basis3(r.val))

Basis3_invert_self(self) ==
    LET r == Mat3_invert_self(self.mat)
    IN  IF r.failed THEN Fail ELSE Ok(Basis3(r.val))

Basis3_eq(self, other) == self.mat = other.mat

Basis3_approx_epsilon == Fail

Basis3_approx_eq(self, other) == Mat3_approx_eq(self.mat, other.mat)

Basis3_approx_eq_eps(self, other, approx_epsilon) ==
    Mat3_approx_eq_eps(self.mat, other.mat, approx_epsilon)

-----------------------------------------------------------------------------
(* impl ToBasis3, ToQuat and Rotation for Quat                             *)

Quat_to_rot3(self) == Basis3(Quat_to_mat3(self))
Quat_to_quat(self) == self

(* a faulty identity: the real part put last *)
Quat_identity_real_last == Quat_new(zero, zero, zero, one)

Quat_identity == Quat_identity_q

Quat_rotate_vec(self, vec) == Quat_mul_v(self, vec)

(* a faulty concat: the operands of the product exchanged *)
Quat_concat_reversed(self, other) == Quat_mul_q(other, self)

Quat_concat(self, other) == Quat_mul_q(self, other)

Quat_concat_self(self, other) == Quat_mul_self_q(self, other)

Quat_invert(self) == Ok(Quat_div_s(Quat_conjugate(self), Quat_magnitude2(self)))

Quat_invert_self(self) == Quat_invert(self)

Quat_eq(self, other) == self = other

-----------------------------------------------------------------------------
(* trait Rotation: a value behind the contract is one of its implementors; *)
(* rep names the implementor and val is the value                          *)

Dyn(rep, val) == [rep |-> rep, val |-> val]

Reps == {"Basis2", "Basis3", "Quat"}

Rotation_identity(rep) ==
    CASE rep = "Basis2" -> Dyn(rep, Basis2_identity)
      [] rep = "Basis3" -> Dyn(rep, Basis3_identity)
      [] rep = "Quat"   -> Dyn(rep, Quat_identity)

Rotation_rotate_vec(self, vec) ==
    CASE self.rep = "Basis2" -> Basis2_rotate_vec(self.val, vec)
      [] self.rep = "Basis3" -> Basis3_rotate_vec(self.val, vec)
      [] self.rep = "Quat"   -> Quat_rotate_vec(self.val, vec)

(* provided method *)
Rotation_rotate_point(self, point) ==
    Point_from_vec(Rotation_rotate_vec(self, Point_to_vec(point)))

(* a faulty rotate_ray: the origin rotated along with the direction *)
Rotation_rotate_ray_origin_rotated(self, ray) ==
    Ray_new(Rotation_rotate_point(self, ray.origin),
            Rotation_rotate_vec(self, ray.direction))

(* provided method *)
Rotation_rotate_ray(self, ray) ==
    Ray_new(Array_build_clone(ray.origin),
            Rotation_rotate_vec(self, ray.direction))

Rotation_concat(self, other) ==
    CASE self.rep = "Basis2" -> Dyn(self.rep, Basis2_concat(self.val, other.val))
      [] self.rep = "Basis3" -> Dyn(self.rep, Basis3_concat(self.val, other.val))
      [] self.rep = "Quat"   -> Dyn(self.rep, Quat_concat(self.val, other.val))

(* Ok(rotation) or Fail *)
Wrap(rep, r) == IF r.failed THEN Fail ELSE Ok(Dyn(rep, r.val))

Rotation_invert(self) ==
    CASE self.rep = "Basis2" -> Wrap(self.rep, Basis2_invert(self.val))
      [] self.rep = "Basis3" -> Wrap(self.rep, Basis3_invert(self.val))
      [] self.rep = "Quat"   -> Wrap(self.rep, Quat_invert(self.val))

(* the provided in-place methods, which every implementor overrides *)
Rotation_concat_self_default(self, other) == Rotation_concat(self, other)
Rotation_invert_self_default(self) == Rotation_invert(self)

Rotation_concat_self(self, other) ==
    CASE self.rep = "Basis2" -> Dyn(self.rep, Basis2_concat_self(self.val, other.val))
      [] self.rep = "Basis3" -> Dyn(self.rep, Basis3_concat_self(self.val, other.val))
      [] self.rep = "Quat"   -> Dyn(self.rep, Quat_concat_self(self.val, other.val))

Rotation_invert_self(self) ==
    CASE self.rep = "Basis2" -> Wrap(self.rep, Basis2_invert_self(self.val))
      [] self.rep = "Basis3" -> Wrap(self.rep, Basis3_invert_self(self.val))
      [] self.rep = "Quat"   -> Wrap(self.rep, Quat_invert_self(self.val))

Rotation_eq(self, other) ==
    CASE self.rep = "Basis2" -> Basis2_eq(self.val, other.val)
      [] self.rep = "Basis3" -> Basis3_eq(self.val, other.val)
      [] self.rep = "Quat"   -> Quat_eq(self.val, other.val)

Rotation_approx_epsilon(rep) ==
    CASE rep = "Basis2" -> Basis2_approx_epsilon
      [] rep = "Basis3" -> Basis3_approx_epsilon
      [] rep = "Quat"   -> Quat_approx_epsilon

Rotation_approx_eq(self, other) ==
    CASE self.rep = "Basis2" -> Basis2_approx_eq(self.val, other.val)
      [] self.rep = "Basis3" -> Basis3_approx_eq(self.val, other.val)
      [] self.rep = "Quat"   -> Quat_approx_eq(self.val, other.val)

Rotation_approx_eq_eps(self, other, eps) ==
    CASE self.rep = "Basis2" -> Basis2_approx_eq_eps(self.val, other.val, eps)
      [] self.rep = "Basis3" -> Basis3_approx_eq_eps(self.val, other.val, eps)
      [] self.rep = "Quat"   -> Quat_approx_eq_eps(self.val, other.val, eps)

-----------------------------------------------------------------------------
(* the arguments the calls are given                                       *)

Angles == {Deg90, Deg180, DegPyth}
EulerAngles == {Deg0, Deg90}

(* unit axes, an axis of length 2 and the zero axis *)
Axes == {V3(0, 0, 1), <<Rat(3, 5), Rat(4, 5), zero>>, V3(2, 0, 0), V3(0, 0, 0)}

(* the axis and angle pairs from_axis_angle is given *)
AxisAngles ==
    {<<axis, angle>> : axis \in Axes, angle \in {Deg90, Deg180}}
    \cup {<<V3(0, 0, 1), DegHalf>>, <<V3(2, 0, 0), DegPyth>>}

(* look directions and up vectors, not parallel, of rational length *)
Dirs == {V3(0, 0, 2), V3(1, 0, 0)}
Ups  == {V3(0, 1, 0), V3(0, 3, 4)}

(* Basis2 values handed over by implementors of ToBasis2 *)
Rot2s == { Basis2(<< <<zero, one>>, <<neg(one), zero>> >>),
           Basis2(<< <<Rat(3, 5), Rat(4, 5)>>, <<Rat(-4, 5), Rat(3, 5)>> >>) }

(* unit quaternions built outside the contract *)
UnitQuats == { Quat_new(zero, one, zero, zero),
               Quat_new(zero, zero, one, zero),
               Quat_new(Rat(4, 5), zero, zero, Rat(3, 5)) }

Vecs(rep) ==
    IF rep = "Basis2" THEN {V2(1, 0), V2(1, 2)} ELSE {V3(1, 0, 0), V3(1, 2, 3)}

Points(rep) ==
    IF rep = "Basis2" THEN {V2(4, 5)} ELSE {V3(4, 5, 6)}

Rays(rep) == {Ray_new(o, d) : o \in Points(rep), d \in Vecs(rep)}

(* the other rotation of a binary call: of the receiver's implementor *)
OtherBasis2s == {Dyn("Basis2", Basis2_identity)} \cup {Dyn("Basis2", b) : b \in Rot2s}

OtherBasis3s == { Dyn("Basis3", Basis3_identity),
                  Dyn("Basis3", Basis3_from_angle_z(Deg90)),
                  Dyn("Basis3", Basis3_from_axis_angle(V3(2, 0, 0), Deg90)) }

OtherQuats == {Dyn("Quat", Quat_identity)} \cup {Dyn("Quat", q) : q \in UnitQuats}

Others(rep) ==
    CASE rep = "Basis2" -> OtherBasis2s
      [] rep = "Basis3" -> OtherBasis3s
      [] rep = "Quat"   -> OtherQuats

(* the value a comparison is made with *)
Compared(rep) ==
    CASE rep = "Basis2" -> {Dyn("Basis2", Basis2_identity)}
      [] rep = "Basis3" -> {Dyn("Basis3", Basis3_identity)}
      [] rep = "Quat"   -> {Dyn("Quat", Quat_identity)}

Epsilons == {default_epsilon, one}

NoVal == <<>>

-----------------------------------------------------------------------------
(* State: rot is the rotation value the caller holds, last is the call     *)
(* made last (its receiver before the call, argument, outcome and result), *)
(* steps counts the in-place calls made on rot since it was constructed.   *)

Call(op, recv, arg, failed, res) ==
    [op |-> op, recv |-> recv, arg |-> arg, failed |-> failed, res |-> res]

(* a call through &self returned res, or failed *)
Queried(op, arg, failed, res) ==
    /\ last' = Call(op, rot, arg, failed, res)
    /\ UNCHANGED <<rot, steps>>

(* what each constructor returns for each argument it is given *)
Constructions ==
    {<<"identity", NoVal, Rotation_identity(rep)>> : rep \in Reps}
    \cup {<<"to_rot2", NoVal, Dyn("Basis2", Basis2_to_rot2(b))>> : b \in Rot2s}
    \cup {<<"Quat::new", NoVal, Dyn("Quat", q)>> : q \in UnitQuats}
    \cup {<<"from_angle_x", <<t>>, Dyn("Basis3", Basis3_from_angle_x(t))>> : t \in Angles}
    \cup {<<"from_angle_y", <<t>>, Dyn("Basis3", Basis3_from_angle_y(t))>> : t \in Angles}
    \cup {<<"from_angle_z", <<t>>, Dyn("Basis3", Basis3_from_angle_z(t))>> : t \in Angles}
    \cup {<<"from_euler", <<x, y, z>>, Dyn("Basis3", Basis3_from_euler(x, y, z))>> :
              x \in EulerAngles, y \in EulerAngles, z \in EulerAngles}
    \cup {<<"from_axis_angle", aa,
            Dyn("Basis3", Basis3_from_axis_angle(aa[1], aa[2]))>> : aa \in AxisAngles}
    \cup {<<"look_at", <<dir, up>>, Dyn("Basis3", Basis3_look_at(dir, up))>> :
              dir \in Dirs, up \in Ups}

(* a rotation value starts its life as the result of one constructor call; *)
(* last records that call                                                   *)
Init ==
    \E c \in Constructions :
        /\ rot = c[3]
        /\ last = Call(c[1], NoVal, c[2], FALSE, c[3])
        /\ steps = 0

RotateVec == \E v \in Vecs(rot.rep) :
    Queried("rotate_vec", v, FALSE, Rotation_rotate_vec(rot, v))

RotatePoint == \E p \in Points(rot.rep) :
    Queried("rotate_point", p, FALSE, Rotation_rotate_point(rot, p))

RotateRay == \E ray \in Rays(rot.rep) :
    Queried("rotate_ray", ray, FALSE, Rotation_rotate_ray(rot, ray))

Concat == \E other \in Others(rot.rep) :
    Queried("concat", other, FALSE, Rotation_concat(rot, other))

Invert ==
    Queried("invert", NoVal, Rotation_invert(rot).failed, Rotation_invert(rot).val)

ConcatSelf == \E other \in Others(rot.rep) :
    /\ steps < MaxSteps
    /\ rot' = Rotation_concat_self(rot, other)
    /\ last' = Call("concat_self", rot, other, FALSE, NoVal)
    /\ steps' = steps + 1

(* a failed call unwinds before the receiver is assigned *)
InvertSelf ==
    /\ steps < MaxSteps
    /\ rot' = IF Rotation_invert_self(rot).failed THEN rot
              ELSE Rotation_invert_self(rot).val
    /\ last' = Call("invert_self", rot, NoVal, Rotation_invert_self(rot).failed, NoVal)
    /\ steps' = steps + 1

Eq == \E other \in Compared(rot.rep) :
    Queried("eq", other, FALSE, Rotation_eq(rot, other))

ApproxEpsilon ==
    Queried("approx_epsilon", NoVal, Rotation_approx_epsilon(rot.rep).failed,
            Rotation_approx_epsilon(rot.rep).val)

ApproxEq == \E other \in Compared(rot.rep) :
    Queried("approx_eq", other, FALSE, Rotation_approx_eq(rot, other))

ApproxEqEps == \E other \in Compared(rot.rep), eps \in Epsilons :
    Queried("approx_eq_eps", <<other, eps>>, FALSE,
            Rotation_approx_eq_eps(rot, other, eps))

(* to_quat of a Basis3 takes a square root; the call is made where that    *)
(* root is a nonzero rational                                              *)
ToQuat ==
    /\ rot.rep \in {"Basis3", "Quat"}
    /\ rot.rep = "Basis3" =>
          /\ HasSqrt(Mat3_to_quat_radicand(rot.val.mat))
          /\ Mat3_to_quat_radicand(rot.val.mat) # zero
    /\ Queried("to_quat", NoVal, FALSE,
               IF rot.rep = "Basis3" THEN Basis3_to_quat(rot.val)
                                     ELSE Quat_to_quat(rot.val))

ToRot3 ==
    /\ rot.rep \in {"Basis3", "Quat"}
    /\ Queried("to_rot3", NoVal, FALSE,
               IF rot.rep = "Basis3" THEN Basis3_to_rot3(rot.val)
                                     ELSE Quat_to_rot3(rot.val))

ToMat ==
    /\ rot.rep \in {"Basis2", "Basis3"}
    /\ Queried("to_mat", NoVal, FALSE,
               IF rot.rep = "Basis2" THEN Basis2_to_mat2(rot.val)
                                     ELSE Basis3_to_mat3(rot.val))

Next ==
    \/ RotateVec \/ RotatePoint \/ RotateRay
    \/ Concat \/ Invert \/ ConcatSelf \/ InvertSelf
    \/ Eq \/ ApproxEpsilon \/ ApproxEq \/ ApproxEqEps
    \/ ToQuat \/ ToRot3 \/ ToMat

Spec == Init /\ [][Next]_vars

-----------------------------------------------------------------------------
(* Properties                                                              *)

Basis == {"Basis2", "Basis3"}

MatIdentity(rep) == IF rep = "Basis2" THEN Mat2_identity ELSE Mat3_identity

MatMul(rep, a, b) == IF rep = "Basis2" THEN Mat2_mul_m(a, b) ELSE Mat3_mul_m(a, b)

MatTranspose(rep, m) == IF rep = "Basis2" THEN Mat2_transpose(m) ELSE Mat3_transpose(m)

(* the transpose times the matrix is the identity: the columns have length *)
(* one and are perpendicular to each other                                 *)
Orthogonal(r) ==
    MatMul(r.rep, MatTranspose(r.rep, r.val.mat), r.val.mat) = MatIdentity(r.rep)

(* a valid rotation value: an orthogonal matrix, or a unit quaternion *)
ValidRotation(r) ==
    IF r.rep \in Basis THEN Orthogonal(r) ELSE Quat_magnitude2(r.val) = one

ZeroVec(rep) == IF rep = "Basis2" THEN V2(0, 0) ELSE V3(0, 0, 0)

(* vectors that are not zero, to show a matrix sends one of them to zero *)
KernelProbes(rep) ==
    IF rep = "Basis2" THEN {V2(1, 0), V2(0, 1), V2(1, 1)}
    ELSE {V3(1, 0, 0), V3(0, 1, 0), V3(0, 0, 1), V3(1, 1, 1)}

Builders3 ==
    {"look_at", "from_angle_x", "from_angle_y", "from_angle_z", "from_euler",
     "from_axis_angle"}

ContractOps ==
    {"identity", "rotate_vec", "rotate_point", "rotate_ray", "concat", "invert",
     "concat_self", "invert_self", "eq", "approx_epsilon", "approx_eq",
     "approx_eq_eps"}

(* C1: after a concat_self or invert_self call on a Basis2 or Basis3 that  *)
(* was built by identity() or a builder, with the other rotation built the *)
(* same way, the wrapped matrix is orthogonal.                             *)
C1_OrthogonalAfterInPlace ==
    (rot.rep \in Basis /\ last.op \in {"concat_self", "invert_self"})
        => Orthogonal(rot)

(* C2: invert of a rotation as it comes from identity() or a builder       *)
(* returns a value, and the rotation concatenated with it is identity().   *)
C2_InverseLaw ==
    (last.op = "invert" /\ steps = 0)
        => /\ ~last.failed
           /\ Rotation_concat(last.recv, last.res) = Rotation_identity(rot.rep)

(* C3: in every representation the result of concat(a, b) rotates a vector *)
(* as b first and a second: rotate_vec(concat(a, b), v) equals             *)
(* rotate_vec(a, rotate_vec(b, v)).                                        *)
C3_ConcatAppliesOtherFirst ==
    last.op = "concat"
        => \A v \in Vecs(rot.rep) :
               Rotation_rotate_vec(last.res, v)
                   = Rotation_rotate_vec(last.recv, Rotation_rotate_vec(last.arg, v))

(* a concat of two quaternions for which the order of the two matters *)
C3_Witness ==
    /\ last.op = "concat"
    /\ rot.rep = "Quat"
    /\ \E v \in Vecs(rot.rep) :
           Rotation_rotate_vec(last.recv, Rotation_rotate_vec(last.arg, v))
               # Rotation_rotate_vec(last.arg, Rotation_rotate_vec(last.recv, v))

(* C4: identity() rotates every vector to itself and is a unit of concat   *)
(* on both sides, in every representation.                                 *)
C4_IdentityLaw ==
    /\ (last.op = "rotate_vec" /\ last.recv = Rotation_identity(rot.rep))
           => last.res = last.arg
    /\ (last.op = "concat" /\ last.arg = Rotation_identity(rot.rep))
           => last.res = last.recv
    /\ (last.op = "concat" /\ last.recv = Rotation_identity(rot.rep))
           => last.res = last.arg

(* identity() concatenated with a quaternion that is not the identity *)
C4_Witness ==
    /\ last.op = "concat"
    /\ rot.rep = "Quat"
    /\ last.recv = Rotation_identity(rot.rep)
    /\ last.arg # Rotation_identity(rot.rep)

C6_RayOriginKept ==
    last.op = "rotate_ray"
        => /\ ~last.failed
           /\ last.res.origin = last.arg.origin
           /\ last.res.direction = Rotation_rotate_vec(last.recv, last.arg.direction)
           /\ rot = last.recv

(* a ray rotated by a rotation that moves both its origin and direction *)
C6_Witness ==
    /\ last.op = "rotate_ray"
    /\ Rotation_rotate_point(last.recv, last.arg.origin) # last.arg.origin
    /\ last.res.direction # last.arg.direction

(* C7: every Basis3 builder returns an orthogonal matrix, whatever its     *)
(* arguments.                                                              *)
C7_BuildersOrthogonal ==
    last.op \in Builders3 => Orthogonal(last.res)

(* C8: a Basis3 built by from_axis_angle converted to a quaternion and     *)
(* back is the same matrix; a unit quaternion converted to a Basis3 and    *)
(* back is the same quaternion up to sign; the half turn about z converts  *)
(* to the quaternion 0 + (0, 0, 1) up to sign.                             *)
C8_RoundTrip ==
    /\ (/\ last.op = "to_quat"
        /\ rot.rep = "Basis3"
        /\ \E aa \in AxisAngles : rot.val = Basis3_from_axis_angle(aa[1], aa[2]))
           => Quat_to_rot3(last.res) = rot.val
    /\ (/\ last.op = "to_rot3"
        /\ rot.rep = "Quat"
        /\ HasSqrt(Mat3_to_quat_radicand(last.res.mat)))
           => Basis3_to_quat(last.res) \in {rot.val, Quat_neg(rot.val)}
    /\ (/\ last.op = "to_quat"
        /\ rot.rep = "Basis3"
        /\ rot.val = Basis3_from_axis_angle(V3(0, 0, 1), Deg180))
           => last.res \in { Quat_new(zero, zero, zero, one),
                             Quat_neg(Quat_new(zero, zero, zero, one)) }

(* C9: invert of a Basis2 or Basis3 returns a value only when it is the    *)
(* inverse of the wrapped matrix; it fails, returning nothing, only when   *)
(* the matrix sends a nonzero vector to zero (so has no inverse); the      *)
(* receiver is unchanged either way.                                       *)
C9_InvertFailsWithoutInverse ==
    (last.op = "invert" /\ rot.rep \in Basis)
        => /\ ~last.failed
                => /\ MatMul(rot.rep, last.recv.val.mat, last.res.val.mat)
                          = MatIdentity(rot.rep)
                   /\ MatMul(rot.rep, last.res.val.mat, last.recv.val.mat)
                          = MatIdentity(rot.rep)
           /\ last.failed
                => /\ last.res = NoVal
                   /\ \E v \in KernelProbes(rot.rep) :
                          Rotation_rotate_vec(last.recv, v) = ZeroVec(rot.rep)
           /\ rot = last.recv

(* invert called on a Basis3 whose matrix has no inverse *)
C9_Witness ==
    /\ last.op = "invert"
    /\ rot.rep = "Basis3"
    /\ last.failed

(* C10: every operation of the contract called on a valid rotation value   *)
(* returns a value.                                                        *)
C10_ContractTotal ==
    (last.op \in ContractOps /\ ValidRotation(rot)) => ~last.failed

====
